---------------------------- MODULE Spec2Model ----------------------------
(***************************************************************************)
(* Hallucination filtering, line wrapping and Stable-TS transcription of   *)
(* speech-recognition subtitles.                                           *)
(*                                                                         *)
(* A text is a sequence of one-character strings.  The character classes   *)
(* follow Python's re module on str patterns: \w is a letter, a digit or   *)
(* the underscore, \s is whitespace, and every other character is          *)
(* punctuation.                                                            *)
(***************************************************************************)
EXTENDS Integers, Sequences, FiniteSets, TLC

VARIABLES
    pc,              \* position of the running function
    texto,           \* argument of normalizar_texto / eh_alucinacao_interna
    copia,           \* which copy of the code runs
    norm1,           \* normalizar_texto(texto)
    norm2,           \* normalizar_texto(norm1)
    resultado,       \* value returned by eh_alucinacao_interna(texto)
    segments,        \* argument of filtrar_alucinacoes
    max_repeticoes,  \* argument of filtrar_alucinacoes
    segs_limpos,     \* survivors of the first pass
    internas,        \* internal hallucinations counted by the first pass
    i,               \* anchor index of the second pass (1-based)
    filtrados,       \* segments kept so far
    consecutivas,    \* segments discarded by run collapsing
    passada,         \* 1 on the first run of the filter, 2 on the re-run
    primeira,        \* what the first run of the filter returned
    max_chars,       \* argument of quebrar_legenda_netflix
    max_linhas,      \* argument of quebrar_legenda_netflix
    linhas,          \* the list linhas of quebrar_legenda_netflix
    saida,           \* quebrar_legenda_netflix(texto, max_chars, max_linhas)
    saida2,          \* quebrar_legenda_netflix(saida, max_chars, max_linhas)
    stable_ts_available,  \* STABLE_TS_AVAILABLE
    metodos,         \* post-processing methods the transcription result has
    aplicados,       \* post-processing methods applied to the result so far
    arquivo,         \* the file at the output path
    excecao,         \* the except clause of the transcription that has run
    retorno,         \* how the transcription function ended
    mantidas,        \* positions kept by the copies of the filter run so far
    arquivos,        \* per video, which of its output files exist
    video,           \* index of the video main() is processing (1-based)
    chamadas,        \* the stages main() has invoked, in order
    encerramento,    \* how main() ended
    num_blocos,      \* number of blocks of the SRT given to traduzir_srt_lotes
    lote,            \* index of the batch being translated (1-based)
    tentativas,      \* tentativas of the batch being translated
    sucesso_lote,    \* sucesso_lote of the batch being translated
    legendas_traduzidas,  \* the list legendas_traduzidas
    envios,          \* per batch, the calls of generate_content made for it
    saida_pt,        \* the file at caminho_saida
    retorno_traducao \* what traduzir_srt_lotes returned

\* state of the re-run of the filter
passVars == <<passada, primeira>>

\* state of quebrar_legenda_netflix
legendaVars == <<max_chars, max_linhas, linhas, saida, saida2>>

\* state of the Stable-TS transcription
stableVars ==
    <<stable_ts_available, metodos, aplicados, arquivo, excecao, retorno>>

\* state of the run of all copies of the filter on one input
copiasVars == <<mantidas>>

\* state of main()
pipelineVars == <<arquivos, video, chamadas, encerramento>>

\* state of traduzir_srt_lotes
traducaoVars ==
    <<num_blocos, lote, tentativas, sucesso_lote, legendas_traduzidas, envios,
      saida_pt, retorno_traducao>>

restoVars == <<copiasVars, pipelineVars, traducaoVars>>

vars == <<pc, texto, copia, norm1, norm2, resultado, segments, max_repeticoes,
          segs_limpos, internas, i, filtrados, consecutivas, passVars,
          legendaVars, stableVars,
                   restoVars>>

-----------------------------------------------------------------------------
(* Bounds of the model *)

\* longest text given to normalizar_texto
MaxTextLen == 4
\* longest free-form text given to eh_alucinacao_interna
MaxClassifyLen == 6
\* most occurrences of one vocabulary word in a generated text
MaxCount == 4
\* most occurrences of the first vocabulary word, a word of palavras_ok
MaxCountOk == 7
\* longest text of short words given to eh_alucinacao_interna
MaxInterleaveLen == 9
\* longest segment list given to filtrar_alucinacoes
MaxSegs == 4
\* largest max_repeticoes given to filtrar_alucinacoes
MaxRep == 2
\* most repetitions of the one word of a single-word text
MaxRepeat == 10
\* longest free-form text given to quebrar_legenda_netflix
MaxWrapLen == 5
\* largest max_chars given to quebrar_legenda_netflix with a free-form text
MaxChars == 4
\* largest max_linhas given to quebrar_legenda_netflix
MaxLinhas == 2
\* longest list of phrases and internal hallucinations given to the filter
MaxRunSegs == 5
MaxVideos == 2
MaxBlocos == 41

-----------------------------------------------------------------------------
(* Characters *)

UpperLetters ==
    <<"A","B","C","D","E","F","G","H","I","J","K","L","M",
      "N","O","P","Q","R","S","T","U","V","W","X","Y","Z">>

LowerLetters ==
    <<"a","b","c","d","e","f","g","h","i","j","k","l","m",
      "n","o","p","q","r","s","t","u","v","w","x","y","z">>

Digits == {"0","1","2","3","4","5","6","7","8","9"}

Range(f) == {f[k] : k \in DOMAIN f}

IsLetter(c) == c \in Range(UpperLetters) \cup Range(LowerLetters)

\* \w
IsWordChar(c) == IsLetter(c) \/ c \in Digits \/ c = "_"

\* \s
IsSpace(c) == c \in {" ", "\n", "\t", "\r"}

\* str.lower() on one character
LowerChar(c) ==
    IF c \in Range(UpperLetters)
    THEN LowerLetters[CHOOSE k \in DOMAIN UpperLetters : UpperLetters[k] = c]
    ELSE c

-----------------------------------------------------------------------------
(* Strings *)

\* str.lower()
Lower(s) == [k \in DOMAIN s |-> LowerChar(s[k])]

RECURSIVE LStrip(_)
LStrip(s) ==
    IF s = <<>> THEN s
    ELSE IF IsSpace(Head(s)) THEN LStrip(Tail(s)) ELSE s

RECURSIVE RStrip(_)
RStrip(s) ==
    IF s = <<>> THEN s
    ELSE IF IsSpace(s[Len(s)]) THEN RStrip(SubSeq(s, 1, Len(s) - 1)) ELSE s

\* str.strip()
Strip(s) == RStrip(LStrip(s))

IsNotPunct(c) == IsWordChar(c) \/ IsSpace(c)

\* re.sub(r'[^\w\s]', '', s)
RemovePunct(s) == SelectSeq(s, IsNotPunct)

\* re.sub(r'[^\w\s]', ' ', s)
PunctToSpace(s) == [k \in DOMAIN s |-> IF IsNotPunct(s[k]) THEN s[k] ELSE " "]

\* re.sub(r'\s+', ' ', s)
RECURSIVE CollapseSpaces(_)
CollapseSpaces(s) ==
    IF s = <<>> THEN s
    ELSE IF IsSpace(Head(s))
         THEN <<" ">> \o CollapseSpaces(LStrip(Tail(s)))
         ELSE <<Head(s)>> \o CollapseSpaces(Tail(s))

\* length of the longest prefix of s without whitespace
RECURSIVE WordLen(_)
WordLen(s) ==
    IF s = <<>> \/ IsSpace(Head(s)) THEN 0 ELSE 1 + WordLen(Tail(s))

\* str.split(): the maximal runs of non-whitespace characters
RECURSIVE Split(_)
Split(s) ==
    LET t == LStrip(s)
        n == WordLen(t)
    IN  IF t = <<>> THEN <<>>
        ELSE <<SubSeq(t, 1, n)>> \o Split(SubSeq(t, n + 1, Len(t)))

\* a containment that the empty string never satisfies
IsSubstringNaoVazio(a, b) ==
    /\ a # <<>>
    /\ \E k \in 0..(Len(b) - Len(a)) : SubSeq(b, k + 1, k + Len(a)) = a

\* a in b, for strings
IsSubstring(a, b) ==
    \E k \in 0..(Len(b) - Len(a)) : SubSeq(b, k + 1, k + Len(a)) = a

-----------------------------------------------------------------------------
(* normalizar_texto *)

\* limpar_alucinacoes_srt.py and extrair_proximos_srt_v2.py:
\* strip first, then remove punctuation, then collapse whitespace
normalizar_texto(t) == CollapseSpaces(RemovePunct(Strip(Lower(t))))

\* the inline copy of extrair_paralelo.py: strip last
normalizar_texto_paralelo(t) == Strip(CollapseSpaces(RemovePunct(Lower(t))))

NormalizarCopia(c, t) ==
    IF c = "paralelo" THEN normalizar_texto_paralelo(t) ELSE normalizar_texto(t)

-----------------------------------------------------------------------------
(* eh_alucinacao_interna *)

\* a slip of the length test: four words are already judged
MinPalavrasBaixo == 5 - 1

\* fewer words than this are never judged
MinPalavras == 5

\* the low-diversity rule applies from this many words on
MinPalavrasPadrao == 10

\* ... and to at most this many distinct words
MaxPalavrasUnicas == 3

palavras_ok ==
    { <<"i">>, <<"y","o","u">>, <<"t","h","e">>, <<"a">>, <<"a","n","d">>,
      <<"t","o">>, <<"i","t">>, <<"i","s">>, <<"o","f">>, <<"i","n">>,
      <<"t","h","a","t">>, <<"m","e">>, <<"m","y">>, <<"y","o","u","r">> }

\* punctuation is removed, as normalizar_texto removes it, instead of
\* replaced by a space
PalavrasSemEspaco(t) == Split(RemovePunct(Lower(t)))

\* re.sub(r'[^\w\s]', ' ', texto.lower()).split()
Palavras(t) == Split(PunctToSpace(Lower(t)))

\* one step of Counter(palavras): items keep the order of first occurrence
CounterAdd(c, w) ==
    IF \E k \in DOMAIN c : c[k].palavra = w
    THEN [k \in DOMAIN c |->
            IF c[k].palavra = w THEN [c[k] EXCEPT !.qtd = @ + 1] ELSE c[k]]
    ELSE Append(c, [palavra |-> w, qtd |-> 1])

RECURSIVE Counter(_)
Counter(ws) ==
    IF ws = <<>> THEN <<>>
    ELSE CounterAdd(Counter(SubSeq(ws, 1, Len(ws) - 1)), ws[Len(ws)])

\* contagem.most_common(1)[0]: the first item, in insertion order, of
\* greatest count
MostCommon(c) ==
    c[CHOOSE k \in DOMAIN c :
        \A m \in DOMAIN c :
            c[m].qtd < c[k].qtd \/ (c[m].qtd = c[k].qtd /\ m >= k)]

\* a slip of the threshold: the common words get no allowance
ThresholdSemOk(palavra) == 5

\* threshold in tenths: 0.7 for the common words, 0.5 for the others
Threshold(palavra) == IF palavra \in palavras_ok THEN 7 ELSE 5

\* qtd / len(palavras) >= threshold.  The quotient of two small integers is
\* the double nearest to the exact ratio and 0.7, 0.5 are the doubles nearest
\* to 7/10 and 1/2, so the comparison of doubles agrees with the comparison
\* of integers 10 * qtd >= tenths * len.
RatioAtLeast(qtd, total, tenths) == 10 * qtd >= tenths * total

eh_alucinacao_interna(t) ==
    LET palavras == Palavras(t)
    IN  IF Len(palavras) < MinPalavras THEN FALSE
        ELSE LET contagem == Counter(palavras)
                 mc == MostCommon(contagem)
             IN  IF RatioAtLeast(mc.qtd, Len(palavras), Threshold(mc.palavra))
                 THEN TRUE
                 ELSE IF Len(palavras) >= MinPalavrasPadrao
                         /\ Cardinality(Range(palavras)) <= MaxPalavrasUnicas
                      THEN TRUE
                      ELSE FALSE

-----------------------------------------------------------------------------
(* Inputs *)

\* all texts over alphabet A of length at most n
Strings(A, n) == UNION {[1..k -> A] : k \in 0..n}

NormAlphabet == {"a", "B", "1", "-", " ", "\n"}

ClassifyAlphabet == {"a", "O", "-", " "}

\* letters of short words in any order; "a" is a word of palavras_ok
InterleaveAlphabet == {"a", "o", " "}

\* words of generated texts; "I" lower-cases to a word of palavras_ok
Vocab == << <<"I">>, <<"o","h">>, <<"u","m">>, <<"y","a">>, <<"w","e">> >>

Separators == { <<" ">>, <<",", " ">>, <<"-">> }

Orders == { <<1, 2, 3, 4, 5>>, <<5, 4, 3, 2, 1>> }

\* w repeated n times, each occurrence followed by sep
RECURSIVE Repeat(_, _, _)
Repeat(w, n, sep) == IF n = 0 THEN <<>> ELSE w \o sep \o Repeat(w, n - 1, sep)

\* the text with cnt[v] occurrences of Vocab[v], the words grouped in the
\* given order and separated by sep
RECURSIVE RunText(_, _, _)
RunText(cnt, order, sep) ==
    IF order = <<>> THEN <<>>
    ELSE Repeat(Vocab[Head(order)], cnt[Head(order)], sep)
         \o RunText(cnt, Tail(order), sep)

Counts ==
    { cnt \in [DOMAIN Vocab -> 0..MaxCountOk] :
        \A v \in DOMAIN Vocab : v > 1 => cnt[v] <= MaxCount }

RunTexts ==
    { RunText(cnt, order, sep) :
        cnt \in Counts, order \in Orders, sep \in Separators }

\* one vocabulary word repeated, each occurrence followed by a separator
RepeatTexts ==
    { Repeat(Vocab[v], n, sep) :
        v \in DOMAIN Vocab, n \in 0..MaxRepeat, sep \in Separators }

ClassifyTexts ==
    Strings(ClassifyAlphabet, MaxClassifyLen)
        \cup Strings(InterleaveAlphabet, MaxInterleaveLen)
        \cup RunTexts
        \cup RepeatTexts

-----------------------------------------------------------------------------
(* Specification of normalizar_texto: normalize a text, then normalize the
   result *)

IdlePass ==
    /\ passada = 1
    /\ primeira = <<>>

IdleLegenda ==
    /\ max_chars = 42
    /\ max_linhas = 2
    /\ linhas = <<>>
    /\ saida = <<>>
    /\ saida2 = <<>>

\* no file at the output path
Ausente == [estado |-> "ausente", versao |-> <<>>]

IdleStable ==
    /\ stable_ts_available = FALSE
    /\ metodos = {}
    /\ aplicados = <<>>
    /\ arquivo = Ausente
    /\ excecao = "nenhuma"
    /\ retorno = "nenhum"

IdleCopias == mantidas = <<>>

IdlePipeline ==
    /\ arquivos = <<>>
    /\ video = 1
    /\ chamadas = <<>>
    /\ encerramento = "nenhum"

IdleTraducao ==
    /\ num_blocos = 0
    /\ lote = 1
    /\ tentativas = 0
    /\ sucesso_lote = FALSE
    /\ legendas_traduzidas = <<>>
    /\ envios = <<>>
    /\ saida_pt = <<>>
    /\ retorno_traducao = "nenhum"

IdleResto ==
    /\ IdleCopias
    /\ IdlePipeline
    /\ IdleTraducao

Idle ==
    /\ IdlePass
    /\ IdleLegenda
    /\ IdleStable
    /\ IdleResto
    /\ segments = <<>>
    /\ max_repeticoes = 2
    /\ segs_limpos = <<>>
    /\ internas = 0
    /\ i = 1
    /\ filtrados = <<>>
    /\ consecutivas = 0

InitNorm ==
    /\ pc = "normalizar"
    /\ texto \in Strings(NormAlphabet, MaxTextLen)
    /\ copia \in {"limpar", "paralelo"}
    /\ norm1 = <<>>
    /\ norm2 = <<>>
    /\ resultado = FALSE
    /\ Idle

Normalizar ==
    /\ pc = "normalizar"
    /\ norm1' = NormalizarCopia(copia, texto)
    /\ pc' = "renormalizar"
    /\ UNCHANGED <<texto, copia, norm2, resultado, segments, max_repeticoes,
                   segs_limpos, internas, i, filtrados, consecutivas,
                   passVars, legendaVars, stableVars,
                   restoVars>>

Renormalizar ==
    /\ pc = "renormalizar"
    /\ norm2' = NormalizarCopia(copia, norm1)
    /\ pc' = "normalizado"
    /\ UNCHANGED <<texto, copia, norm1, resultado, segments, max_repeticoes,
                   segs_limpos, internas, i, filtrados, consecutivas,
                   passVars, legendaVars, stableVars,
                   restoVars>>

NextNorm == Normalizar \/ Renormalizar

SpecNorm == InitNorm /\ [][NextNorm]_vars

-----------------------------------------------------------------------------
(* Specification of eh_alucinacao_interna *)

InitClassify ==
    /\ pc = "classificar"
    /\ texto \in ClassifyTexts
    /\ copia = "limpar"
    /\ norm1 = <<>>
    /\ norm2 = <<>>
    /\ resultado = FALSE
    /\ Idle

Classificar ==
    /\ pc = "classificar"
    /\ resultado' = eh_alucinacao_interna(texto)
    /\ pc' = "classificado"
    /\ UNCHANGED <<texto, copia, norm1, norm2, segments, max_repeticoes,
                   segs_limpos, internas, i, filtrados, consecutivas,
                   passVars, legendaVars, stableVars,
                   restoVars>>

NextClassify == Classificar

SpecClassify == InitClassify /\ [][NextClassify]_vars

-----------------------------------------------------------------------------
(* filtrar_alucinacoes: limpar_alucinacoes_srt.py (copia = "limpar") and
   extrair_proximos_srt_v2.py (copia = "v2") *)

\* parse_srt: the segment of the k-th block, whose text lines are raw.  The
\* timestamps are those of the block; the filter never reads them, and the
\* k-th block is given the times k - 1 and k.
ParseSegment(k, raw) ==
    [start |-> k - 1, end |-> k, text |-> Strip(raw),
     text_norm |-> normalizar_texto(Strip(raw))]

\* a segment object of the transcription library
WhisperSegment(k, raw) == [start |-> k - 1, end |-> k, text |-> raw]

\* v2 stores the normalized text as the text of the segment
SegDictNorm(s) ==
    [start |-> s.start, end |-> s.end, text |-> normalizar_texto(Strip(s.text)),
     text_norm |-> normalizar_texto(Strip(s.text))]

\* v2: the dict built for a kept segment object
SegDict(s) ==
    [start |-> s.start, end |-> s.end, text |-> Strip(s.text),
     text_norm |-> normalizar_texto(Strip(s.text))]

\* v2 without the test of the stripped text
TextoPresenteSempre(text) == TRUE

\* v2: "if text:"
TextoPresente(text) == text # <<>>

\* a first pass that drops nothing
RECURSIVE SegsLimposSemFiltro(_, _)
SegsLimposSemFiltro(c, segs) ==
    IF segs = <<>> THEN <<>>
    ELSE (IF c = "limpar" THEN <<Head(segs)>> ELSE <<SegDict(Head(segs))>>)
         \o SegsLimposSemFiltro(c, Tail(segs))

\* first pass: the segments that are not internal hallucinations
RECURSIVE SegsLimpos(_, _)
SegsLimpos(c, segs) ==
    IF segs = <<>> THEN <<>>
    ELSE LET s == Head(segs)
             rest == SegsLimpos(c, Tail(segs))
         IN  IF c = "limpar"
             THEN IF eh_alucinacao_interna(s.text) THEN rest ELSE <<s>> \o rest
             ELSE IF TextoPresente(Strip(s.text))
                     /\ ~eh_alucinacao_interna(Strip(s.text))
                  THEN <<SegDict(s)>> \o rest
                  ELSE rest

\* first pass: the count of internal hallucinations
RECURSIVE Internas(_, _)
Internas(c, segs) ==
    IF segs = <<>> THEN 0
    ELSE LET s == Head(segs)
             t == IF c = "limpar" THEN s.text ELSE Strip(s.text)
             counted == (c = "limpar" \/ TextoPresente(t))
                        /\ eh_alucinacao_interna(t)
         IN  (IF counted THEN 1 ELSE 0) + Internas(c, Tail(segs))

\* limpar_srt_unico parses a file and filters as limpar_alucinacoes_srt.py
\* does; the inline filter of extrair_paralelo.py reads segment objects as
\* extrair_proximos_srt_v2.py does
Familia(c) == IF c \in {"limpar", "unico"} THEN "limpar" ELSE "v2"

\* the first pass of every copy: the inline filter of extrair_paralelo.py
\* builds the dicts of v2 with its own normalizar_texto
SegsLimposCopia(c, segs) ==
    IF c = "paralelo"
    THEN LET ds == SegsLimpos("v2", segs)
         IN  [k \in DOMAIN ds |->
                 [ds[k] EXCEPT !.text_norm = normalizar_texto_paralelo(ds[k].text)]]
    ELSE SegsLimpos(Familia(c), segs)

\* texto_norm == outro or (len(texto_norm) > 3 and
\*                         (texto_norm in outro or outro in texto_norm))
Repetido(texto_norm, outro) ==
    \/ texto_norm = outro
    \/ (Len(texto_norm) > 3
        /\ (IsSubstring(texto_norm, outro) \/ IsSubstring(outro, texto_norm)))

\* a scan that compares each segment with the one before it
RECURSIVE FimSequenciaAnterior(_, _, _)
FimSequenciaAnterior(segs, texto_norm, j) ==
    IF j <= Len(segs) /\ Repetido(segs[j - 1].text_norm, segs[j].text_norm)
    THEN FimSequenciaAnterior(segs, texto_norm, j + 1)
    ELSE j

\* the inner while loop: the first index from j on whose text does not repeat
\* texto_norm, or len(segs) + 1
RECURSIVE FimSequencia(_, _, _)
FimSequencia(segs, texto_norm, j) ==
    IF j <= Len(segs) /\ Repetido(texto_norm, segs[j].text_norm)
    THEN FimSequencia(segs, texto_norm, j + 1)
    ELSE j

\* no run is collapsed
MantidosSempre(segs, a, j, max_rep) == SubSeq(segs, a, j - 1)

\* a collapsed run keeps its first max_rep segments
MantidosAteMax(segs, a, j, max_rep) ==
    IF j - a > max_rep THEN SubSeq(segs, a, a + max_rep - 1)
    ELSE SubSeq(segs, a, j - 1)

\* a run is collapsed as soon as it reaches max_rep
MantidosDesdeMax(segs, a, j, max_rep) ==
    IF j - a >= max_rep THEN <<segs[a]>> ELSE SubSeq(segs, a, j - 1)

\* what the run [a, j) adds to filtrados
Mantidos(segs, a, j, max_rep) ==
    IF j - a > max_rep THEN <<segs[a]>> ELSE SubSeq(segs, a, j - 1)

\* the scan resumes on the last segment of a run of several
ProximoIndiceRecuado(a, j) == IF j - a > 1 THEN j - 1 ELSE j

\* i = j
ProximoIndice(a, j) == j

-----------------------------------------------------------------------------
(* Inputs of the filter *)

\* text lines of the blocks of a subtitle file
SrtTexts ==
    { <<"o","k">>,
      <<"O","k","!">>,
      <<"y","e","a","h">>,
      <<"y","e","a","h"," ","o","k">>,
      <<"u","m"," ","u","m"," ","u","m"," ","u","m"," ","u","m">>,
      <<".",".",".">>,
      <<"-"," ","o","k">> }

\* texts of the segment objects of the transcription library
WhisperTexts ==
    { <<" ","O","k","!">>,
      <<" ","o","k",".">>,
      <<" ","y","e","a","h">>,
      <<"y","e","a","h"," ","o","k"," ">>,
      <<" ","u","m"," ","u","m"," ","u","m"," ","u","m"," ","u","m">>,
      <<" ">> }

SegmentLists(c) ==
    IF c = "limpar"
    THEN { [k \in DOMAIN raws |-> ParseSegment(k, raws[k])] :
             raws \in UNION {[1..n -> SrtTexts] : n \in 0..MaxSegs} }
    ELSE { [k \in DOMAIN raws |-> WhisperSegment(k, raws[k])] :
             raws \in UNION {[1..n -> WhisperTexts] : n \in 0..MaxSegs} }

-----------------------------------------------------------------------------
(* Specification of filtrar_alucinacoes *)

InitFilter(copias) ==
    /\ pc = "inicio"
    /\ copia \in copias
    /\ segments \in SegmentLists(copia)
    /\ max_repeticoes \in 1..MaxRep
    /\ segs_limpos = <<>>
    /\ internas = 0
    /\ i = 1
    /\ filtrados = <<>>
    /\ consecutivas = 0
    /\ texto = <<>>
    /\ norm1 = <<>>
    /\ norm2 = <<>>
    /\ resultado = FALSE
    /\ IdlePass
    /\ IdleLegenda
    /\ IdleStable
    /\ IdleResto

\* "if not segments: return segments"
RetornarVazio ==
    /\ pc = "inicio"
    /\ segments = <<>>
    /\ pc' = "retorno"
    /\ UNCHANGED <<texto, copia, norm1, norm2, resultado, segments,
                   max_repeticoes, segs_limpos, internas, i, filtrados,
                   consecutivas,
                   passVars, legendaVars, stableVars,
                   restoVars>>

\* the first pass, and the return taken when nothing survives it
RemoverInternas ==
    /\ pc = "inicio"
    /\ segments # <<>>
    /\ segs_limpos' = SegsLimposCopia(copia, segments)
    /\ internas' = Internas(Familia(copia), segments)
    /\ pc' = IF segs_limpos' = <<>> THEN "retorno" ELSE "consecutivas"
    /\ UNCHANGED <<texto, copia, norm1, norm2, resultado, segments,
                   max_repeticoes, i, filtrados, consecutivas,
                   passVars, legendaVars, stableVars,
                   restoVars>>

\* one iteration of the outer while loop: the run anchored at i
ProcessarSequencia ==
    /\ pc = "consecutivas"
    /\ i <= Len(segs_limpos)
    /\ LET j == FimSequencia(segs_limpos, segs_limpos[i].text_norm, i + 1)
           repeticoes == j - i
       IN  /\ filtrados' =
                 filtrados \o Mantidos(segs_limpos, i, j, max_repeticoes)
           /\ consecutivas' =
                 IF repeticoes > max_repeticoes
                 THEN consecutivas + repeticoes - 1
                 ELSE consecutivas
           /\ i' = ProximoIndice(i, j)
    /\ UNCHANGED <<pc, texto, copia, norm1, norm2, resultado, segments,
                   max_repeticoes, segs_limpos, internas,
                   passVars, legendaVars, stableVars,
                   restoVars>>

\* the outer loop ends: "return filtrados"
Retornar ==
    /\ pc = "consecutivas"
    /\ i > Len(segs_limpos)
    /\ pc' = "retorno"
    /\ UNCHANGED <<texto, copia, norm1, norm2, resultado, segments,
                   max_repeticoes, segs_limpos, internas, i, filtrados,
                   consecutivas,
                   passVars, legendaVars, stableVars,
                   restoVars>>

Next == RetornarVazio \/ RemoverInternas \/ ProcessarSequencia \/ Retornar

\* both copies of filtrar_alucinacoes
Init == InitFilter({"limpar", "v2"})

Spec == Init /\ [][Next]_vars

\* the copy of limpar_alucinacoes_srt.py alone
InitLimpar == InitFilter({"limpar"})

SpecLimpar == InitLimpar /\ [][Next]_vars

-----------------------------------------------------------------------------
(* Claims about filtrar_alucinacoes *)

\* the input segment at position k is in the output
InOutput(k) ==
    \E m \in DOMAIN filtrados : filtrados[m].start = segments[k].start

\* positions of the input segments that are not internal hallucinations
SurvivorPositions ==
    SelectSeq([k \in DOMAIN segments |-> k],
              LAMBDA k : ~eh_alucinacao_interna(segments[k].text))

\* normalized text of the input segment at position k
NormAt(k) == normalizar_texto(segments[k].text)

\* the anchor text a is repeated by the text b
ClaimRelated(a, b) ==
    a = b \/ (Len(a) > 3 /\ (IsSubstring(a, b) \/ IsSubstring(b, a)))

\* end (exclusive) of the run of survivors anchored at index a of P
ClaimRunEnd(P, a) ==
    CHOOSE j \in (a + 1)..(Len(P) + 1) :
        /\ \A m \in (a + 1)..(j - 1) : ClaimRelated(NormAt(P[a]), NormAt(P[m]))
        /\ j = Len(P) + 1 \/ ~ClaimRelated(NormAt(P[a]), NormAt(P[j]))

\* the anchors of the runs of P from index a on
RECURSIVE ClaimAnchors(_, _)
ClaimAnchors(P, a) ==
    IF a > Len(P) THEN {} ELSE {a} \cup ClaimAnchors(P, ClaimRunEnd(P, a))

\* C1: of every run of survivors longer than max_repeticoes exactly the
\* first segment is in the output; more than max_repeticoes segments of
\* identical normalized text, none an internal hallucination, give an output
\* of length 1.
C1_LongRunKeepsFirstOnly ==
    pc = "retorno" =>
        LET P == SurvivorPositions
        IN  /\ \A a \in ClaimAnchors(P, 1) :
                   LET j == ClaimRunEnd(P, a)
                   IN  j - a > max_repeticoes =>
                           /\ InOutput(P[a])
                           /\ \A m \in (a + 1)..(j - 1) : ~InOutput(P[m])
            /\ ( /\ Len(segments) > max_repeticoes
                 /\ Len(P) = Len(segments)
                 /\ \A k \in DOMAIN segments : NormAt(k) = NormAt(1) )
               => Len(filtrados) = 1

\* three repetitions followed by another text, max_repeticoes = 2: the
\* output is the first repetition and the other text
C1_Witness ==
    /\ pc = "retorno"
    /\ max_repeticoes = 2
    /\ Len(segments) = 4
    /\ internas = 0
    /\ NormAt(1) = NormAt(2) /\ NormAt(2) = NormAt(3)
    /\ ~ClaimRelated(NormAt(1), NormAt(4))
    /\ Len(filtrados) = 2
    /\ filtrados[1] = segments[1]
    /\ filtrados[2] = segments[4]

\* C2: every segment of a run of survivors of length at most max_repeticoes
\* is in the output; a single segment that is not an internal hallucination
\* is returned unchanged.
C2_ShortRunKeptWhole ==
    pc = "retorno" =>
        LET P == SurvivorPositions
        IN  /\ \A a \in ClaimAnchors(P, 1) :
                   LET j == ClaimRunEnd(P, a)
                   IN  j - a <= max_repeticoes =>
                           \A m \in a..(j - 1) : InOutput(P[m])
            /\ (Len(segments) = 1 /\ Len(P) = 1) => filtrados = segments

\* two repetitions followed by another text, max_repeticoes = 2: all three
\* segments are returned
C2_Witness ==
    /\ pc = "retorno"
    /\ max_repeticoes = 2
    /\ Len(segments) = 3
    /\ NormAt(1) = NormAt(2)
    /\ ~ClaimRelated(NormAt(1), NormAt(3))
    /\ filtrados = segments

\* the output segment o is the input segment s
SameSegment(o, s) ==
    o.start = s.start /\ o.end = s.end /\ o.text = Strip(s.text)

\* C3: the output is a subsequence of the input: its segments are input
\* segments taken at strictly increasing positions, so none is new or
\* duplicated and start times stay in order; an empty input gives an empty
\* output.
C3_OutputIsSubsequence ==
    pc = "retorno" =>
        /\ \E f \in [DOMAIN filtrados -> DOMAIN segments] :
               /\ \A m \in DOMAIN filtrados :
                      SameSegment(filtrados[m], segments[f[m]])
               /\ \A m, n \in DOMAIN filtrados : m < n => f[m] < f[n]
        /\ \A m, n \in DOMAIN filtrados :
               m < n => filtrados[m].start <= filtrados[n].start
        /\ segments = <<>> => filtrados = <<>>

\* some segments were dropped, from the middle, and several were kept
C3_Witness ==
    /\ pc = "retorno"
    /\ Len(filtrados) >= 2
    /\ Len(filtrados) < Len(segments)
    /\ filtrados[Len(filtrados)].start = segments[Len(segments)].start
    /\ filtrados[1].start = segments[1].start

\* C4 as stated: start, end and text of a kept segment equal those of the
\* input segment it came from.
C4_FieldsIdentical ==
    pc = "retorno" =>
        \A m \in DOMAIN filtrados :
            \E k \in DOMAIN segments :
                /\ filtrados[m].start = segments[k].start
                /\ filtrados[m].end = segments[k].end
                /\ filtrados[m].text = segments[k].text

\* C4 as amended: start and end are those of the input segment; the text is
\* the input text with leading and trailing whitespace stripped, which for
\* the already stripped texts of parse_srt is the input text itself.
C4_FieldsIdenticalUpToStrip ==
    pc = "retorno" =>
        \A m \in DOMAIN filtrados :
            \E k \in DOMAIN segments :
                /\ filtrados[m].start = segments[k].start
                /\ filtrados[m].end = segments[k].end
                /\ filtrados[m].text = Strip(segments[k].text)
                /\ copia = "limpar" => filtrados[m].text = segments[k].text

\* v2 kept a segment whose input text began or ended with whitespace
C4_Witness ==
    /\ pc = "retorno"
    /\ copia = "v2"
    /\ \E m \in DOMAIN filtrados :
           \E k \in DOMAIN segments :
               /\ filtrados[m].start = segments[k].start
               /\ filtrados[m].text # segments[k].text

\* C5: no segment of the output is an internal hallucination.
C5_NoInternalHallucinationKept ==
    pc = "retorno" =>
        \A m \in DOMAIN filtrados : ~eh_alucinacao_interna(filtrados[m].text)

\* an internal hallucination was in the input and other segments were kept
C5_Witness ==
    /\ pc = "retorno"
    /\ \E k \in DOMAIN segments : eh_alucinacao_interna(segments[k].text)
    /\ filtrados # <<>>

\* C6: no segment of the output has a text that is empty once stripped of
\* whitespace.
C6_NoEmptyTextKept ==
    pc = "retorno" =>
        \A m \in DOMAIN filtrados : Strip(filtrados[m].text) # <<>>

\* a whitespace-only segment was in the input and other segments were kept
C6_Witness ==
    /\ pc = "retorno"
    /\ \E k \in DOMAIN segments : Strip(segments[k].text) = <<>>
    /\ filtrados # <<>>

-----------------------------------------------------------------------------
(* Claims about normalizar_texto *)

\* C7: normalizar_texto is idempotent: normalizing a normalized text
\* changes nothing, for every text and every copy of the function.
C7_Idempotent == pc = "normalizado" => norm2 = norm1

IsLowerOrDigit(c) == c \in Range(LowerLetters) \/ c \in Digits

\* C8: the result of normalizar_texto holds only lower-case letters, digits
\* and single spaces, has no run of two or more whitespace characters and no
\* leading or trailing whitespace; the empty text maps to the empty text.
C8_OnlyLowerDigitsSingleSpaces ==
    pc \in {"renormalizar", "normalizado"} =>
        /\ \A k \in DOMAIN norm1 : IsLowerOrDigit(norm1[k]) \/ norm1[k] = " "
        /\ \A k \in 1..(Len(norm1) - 1) :
               ~(IsSpace(norm1[k]) /\ IsSpace(norm1[k + 1]))
        /\ norm1 # <<>> => ~IsSpace(norm1[1]) /\ ~IsSpace(norm1[Len(norm1)])
        /\ texto = <<>> => norm1 = <<>>

-----------------------------------------------------------------------------
(* Claims about eh_alucinacao_interna *)

\* number of maximal runs of word characters of t
WordRuns(t) ==
    Cardinality({k \in DOMAIN t :
                    IsWordChar(t[k]) /\ (k = 1 \/ ~IsWordChar(t[k - 1]))})

\* C9 as stated: a text whose lower-cased, punctuation-stripped form splits
\* on whitespace into fewer than 5 words is never flagged.
C9_FewWhitespaceWordsNotFlagged ==
    (pc = "classificado" /\ Len(Split(RemovePunct(Lower(texto)))) < 5)
        => resultado = FALSE

\* C9 as amended: a text with fewer than 5 maximal runs of word characters
\* (punctuation separates words as whitespace does) is never flagged.
C9_FewWordRunsNotFlagged ==
    (pc = "classificado" /\ WordRuns(texto) < 5) => resultado = FALSE

\* four occurrences of one word joined by hyphens were judged and not flagged
C9_Witness ==
    /\ pc = "classificado"
    /\ WordRuns(texto) = 4
    /\ Cardinality(Range(Palavras(texto))) = 1
    /\ \E k \in DOMAIN texto : texto[k] = "-"
    /\ resultado = FALSE

\* occurrences of w in the word list ws
Occurrences(ws, w) == Cardinality({k \in DOMAIN ws : ws[k] = w})

\* the most common word of ws, the earliest one among equals
MostCommonWord(ws) ==
    LET best == CHOOSE k \in DOMAIN ws :
                    /\ \A m \in DOMAIN ws :
                           Occurrences(ws, ws[m]) <= Occurrences(ws, ws[k])
                    /\ \A m \in 1..(k - 1) :
                           Occurrences(ws, ws[m]) < Occurrences(ws, ws[k])
    IN  ws[best]

\* the rule of C10 on the word list ws
C10_Rule(ws) ==
    LET n == Len(ws)
        w == MostCommonWord(ws)
        tenths == IF w \in palavras_ok THEN 7 ELSE 5
    IN  \/ 10 * Occurrences(ws, w) >= tenths * n
        \/ (n >= 10 /\ Cardinality(Range(ws)) <= 3)

\* C10: a text of n >= 5 words is flagged exactly when the most common word
\* reaches its threshold (0.7 of n for a word of palavras_ok, 0.5 otherwise)
\* or n >= 10 with at most 3 distinct words; 5 or more pairwise distinct
\* words are never flagged.
C10_FlaggedExactlyByRule ==
    (pc = "classificado" /\ Len(Palavras(texto)) >= 5) =>
        /\ resultado = C10_Rule(Palavras(texto))
        /\ Cardinality(Range(Palavras(texto))) = Len(Palavras(texto))
               => resultado = FALSE

\* a text of at least 10 words flagged by the low-diversity rule alone
C10_Witness ==
    LET ws == Palavras(texto)
    IN  /\ pc = "classificado"
        /\ Len(ws) >= 10
        /\ Cardinality(Range(ws)) = 3
        /\ 10 * Occurrences(ws, MostCommonWord(ws)) < 5 * Len(ws)
        /\ resultado = TRUE

\* positions of t where a maximal run of word characters starts
RunStarts(t) ==
    {a \in DOMAIN t : IsWordChar(t[a]) /\ (a = 1 \/ ~IsWordChar(t[a - 1]))}

\* the maximal run of word characters of t that starts at a
RunAt(t, a) ==
    LET b == CHOOSE e \in a..Len(t) :
                 /\ \A k \in a..e : IsWordChar(t[k])
                 /\ (e = Len(t) \/ ~IsWordChar(t[e + 1]))
    IN  SubSeq(t, a, b)

\* C11: a text that is one word repeated 5 or more times, the occurrences
\* separated by whitespace and/or punctuation, is flagged, whether or not
\* the word is one of palavras_ok.
C11_RepeatedWordFlagged ==
    ( /\ pc = "classificado"
      /\ Cardinality(RunStarts(texto)) >= 5
      /\ Cardinality({RunAt(texto, a) : a \in RunStarts(texto)}) = 1 )
        => resultado = TRUE

\* 'oh' repeated 10 times with a comma and a space after each was flagged
C11_Witness ==
    /\ pc = "classificado"
    /\ texto = Repeat(<<"o","h">>, 10, <<",", " ">>)
    /\ resultado = TRUE

-----------------------------------------------------------------------------
(* Claims about the runs of filtrar_alucinacoes *)

\* the survivor at index k extends the run anchored at index a
C12_Extends(a, k) ==
    LET anchor == normalizar_texto(segs_limpos[a].text)
        other == normalizar_texto(segs_limpos[k].text)
    IN  \/ other = anchor
        \/ /\ Len(anchor) > 3
           /\ (IsSubstring(anchor, other) \/ IsSubstring(other, anchor))

\* C12: one iteration of the outer loop moves i from the anchor to the first
\* later survivor that does not extend the run, where a survivor extends the
\* run iff its normalized text equals the anchor's, or the anchor's has more
\* than 3 characters and one of the two contains the other; the comparison
\* is with the anchor, never with the preceding segment, and an anchor of at
\* most 3 characters is extended by equal texts only.
C12_RunComparesWithAnchor ==
    [][ (pc = "consecutivas" /\ i <= Len(segs_limpos)) =>
            /\ i' > i
            /\ i' <= Len(segs_limpos) + 1
            /\ \A k \in (i + 1)..(i' - 1) : C12_Extends(i, k)
            /\ i' <= Len(segs_limpos) => ~C12_Extends(i, i')
            /\ Len(normalizar_texto(segs_limpos[i].text)) <= 3 =>
                   \A k \in (i + 1)..(i' - 1) :
                       segs_limpos[k].text_norm = segs_limpos[i].text_norm
      ]_vars

\* 'ok', 'yeah ok', 'ok', 'yeah': the short anchor 'ok' is contained in the
\* next text and its run is not extended; the run of the anchor 'yeah ok'
\* takes 'ok' and then 'yeah', which is in the anchor but not in 'ok'
C12_Witness ==
    /\ pc = "consecutivas"
    /\ max_repeticoes = 2
    /\ Len(segs_limpos) = 4
    /\ segs_limpos[1].text_norm = <<"o","k">>
    /\ segs_limpos[2].text_norm = <<"y","e","a","h"," ","o","k">>
    /\ segs_limpos[3].text_norm = <<"o","k">>
    /\ segs_limpos[4].text_norm = <<"y","e","a","h">>
    /\ i = 5
    /\ Len(filtrados) = 2

-----------------------------------------------------------------------------
(* A subtitle file of whole sentences given to filtrar_alucinacoes *)

\* 'um um um um um um'
TextoUm ==
    <<"u","m"," ","u","m"," ","u","m"," ","u","m"," ","u","m"," ","u","m">>

\* 'I went to the store'
TextoStore ==
    <<"I"," ","w","e","n","t"," ","t","o"," ","t","h","e"," ","s","t","o",
      "r","e">>

\* 'and bought milk'
TextoMilk ==
    <<"a","n","d"," ","b","o","u","g","h","t"," ","m","i","l","k">>

ScenarioTexts == {TextoUm, TextoStore, TextoMilk}

ScenarioLists ==
    { [k \in DOMAIN raws |-> ParseSegment(k, raws[k])] :
        raws \in UNION {[1..n -> ScenarioTexts] : n \in 0..MaxSegs} }

InitScenario ==
    /\ pc = "inicio"
    /\ copia = "limpar"
    /\ segments \in ScenarioLists
    /\ max_repeticoes \in 1..MaxRep
    /\ segs_limpos = <<>>
    /\ internas = 0
    /\ i = 1
    /\ filtrados = <<>>
    /\ consecutivas = 0
    /\ texto = <<>>
    /\ norm1 = <<>>
    /\ norm2 = <<>>
    /\ resultado = FALSE
    /\ IdlePass
    /\ IdleLegenda
    /\ IdleStable
    /\ IdleResto

SpecScenario == InitScenario /\ [][Next]_vars

\* C13: the file 'um um um um um um', 'I went to the store', 'I went to the
\* store', 'and bought milk' filtered with max_repeticoes = 2 loses its first
\* segment, an internal hallucination, and keeps the other three in order.
C13_EndToEnd ==
    ( /\ pc = "retorno"
      /\ max_repeticoes = 2
      /\ [k \in DOMAIN segments |-> segments[k].text]
             = <<TextoUm, TextoStore, TextoStore, TextoMilk>> )
        => /\ filtrados = <<segments[2], segments[3], segments[4]>>
           /\ internas = 1
           /\ consecutivas = 0

\* the filter returned three segments for that file
C13_Witness ==
    /\ pc = "retorno"
    /\ max_repeticoes = 2
    /\ Len(segments) = 4
    /\ segments[1].text = TextoUm
    /\ segments[2].text = TextoStore
    /\ segments[3].text = TextoStore
    /\ segments[4].text = TextoMilk
    /\ Len(filtrados) = 3

-----------------------------------------------------------------------------
(* The filter run again on what it returned: main() of
   limpar_alucinacoes_srt.py saves the filtered segments with salvar_srt and
   a later run parses that file; limpar_srt_unico of extrair_proximos_srt_v2.py
   is the same filter, with max_repeticoes fixed to 2, reading and writing
   one file *)

\* salvar_srt then parse_srt: the block of a saved segment keeps its
\* timestamps, and its text is stripped and normalized again
ReparseSegment(s) ==
    [start |-> s.start, end |-> s.end, text |-> Strip(s.text),
     text_norm |-> normalizar_texto(Strip(s.text))]

\* the second run starts on the segments the first run returned
Refiltrar ==
    /\ pc = "retorno"
    /\ passada = 1
    /\ primeira' = filtrados
    /\ passada' = 2
    /\ segments' = [k \in DOMAIN filtrados |-> ReparseSegment(filtrados[k])]
    /\ segs_limpos' = <<>>
    /\ internas' = 0
    /\ i' = 1
    /\ filtrados' = <<>>
    /\ consecutivas' = 0
    /\ pc' = "inicio"
    /\ UNCHANGED <<texto, copia, norm1, norm2, resultado, max_repeticoes,
                   legendaVars, stableVars,
                   restoVars>>

NextTwice == Next \/ Refiltrar

SpecTwice == InitLimpar /\ [][NextTwice]_vars

\* C14: the filter run on its own output returns it unchanged, for every
\* input and every max_repeticoes >= 1; the second run finds no internal
\* hallucination and collapses no run.
C14_FilterIdempotent ==
    (pc = "retorno" /\ passada = 2) =>
        /\ filtrados = primeira
        /\ internas = 0
        /\ consecutivas = 0

\* the first run dropped segments from between those it kept, and the
\* second run returned the several segments it was given
C14_Witness ==
    /\ pc = "retorno"
    /\ passada = 2
    /\ Len(primeira) >= 3
    /\ filtrados = primeira
    /\ \E a, b \in DOMAIN primeira :
           a < b /\ primeira[b].start > primeira[a].start + (b - a)

-----------------------------------------------------------------------------
(* quebrar_legenda_netflix: core/legenda.py, and the identical copies of
   extrair_proximos_srt_v3_otimizado.py and extrair_proximos_srt_v4_hibrido.py *)

\* texto.replace('\n', ' ')
ReplaceNewline(t) == [k \in DOMAIN t |-> IF t[k] = "\n" THEN " " ELSE t[k]]

\* the maximal runs of characters of s other than sep
RECURSIVE SplitEm(_, _)
SplitEm(s, sep) ==
    IF s = <<>> THEN <<>>
    ELSE IF Head(s) = sep THEN SplitEm(Tail(s), sep)
    ELSE LET n == CHOOSE m \in 1..Len(s) :
                      /\ \A k \in 1..m : s[k] # sep
                      /\ (m = Len(s) \/ s[m + 1] = sep)
         IN  <<SubSeq(s, 1, n)>> \o SplitEm(SubSeq(s, n + 1, Len(s)), sep)

\* the newlines are left in the text and the words are cut at spaces only
PalavrasLegendaEspaco(t) == SplitEm(Strip(t), " ")

\* palavras = texto.replace('\n', ' ').strip().split()
PalavrasLegenda(t) == Split(Strip(ReplaceNewline(t)))

\* the candidate line with two spaces before the word and no strip
TesteDuploEspaco(linha_atual, palavra) == linha_atual \o <<" ", " ">> \o palavra

\* teste = f"{linha_atual} {palavra}".strip()
Teste(linha_atual, palavra) == Strip(linha_atual \o <<" ">> \o palavra)

\* a candidate one character too long is accepted
LinhaCabeFolgada(teste, mc) == Len(teste) <= mc + 1

\* len(teste) <= max_chars
LinhaCabe(teste, mc) == Len(teste) <= mc

\* the word that does not fit is lost
NovaLinhaVazia(palavra) == <<>>

\* linha_atual = palavra
NovaLinha(palavra) == palavra

\* the for loop from the k-th word on: linhas and linha_atual at its end
RECURSIVE QuebrarLoop(_, _, _, _, _)
QuebrarLoop(palavras, k, ls, linha_atual, mc) ==
    IF k > Len(palavras) THEN [linhas |-> ls, linha_atual |-> linha_atual]
    ELSE LET palavra == palavras[k]
             teste == Teste(linha_atual, palavra)
         IN  IF LinhaCabe(teste, mc)
             THEN QuebrarLoop(palavras, k + 1, ls, teste, mc)
             ELSE QuebrarLoop(palavras, k + 1,
                              IF linha_atual # <<>>
                              THEN Append(ls, linha_atual) ELSE ls,
                              NovaLinha(palavra), mc)

\* linhas when the function reaches its return statement
Linhas(t, mc) ==
    LET fim == QuebrarLoop(PalavrasLegenda(t), 1, <<>>, <<>>, mc)
    IN  IF fim.linha_atual # <<>>
        THEN Append(fim.linhas, fim.linha_atual) ELSE fim.linhas

\* every line is returned
TruncarNada(ls, ml) == ls

\* linhas[:max_linhas], for max_linhas >= 0
Truncar(ls, ml) == SubSeq(ls, 1, IF ml < Len(ls) THEN ml ELSE Len(ls))

\* "\n".join(ls)
RECURSIVE JoinLinhas(_)
JoinLinhas(ls) ==
    IF ls = <<>> THEN <<>>
    ELSE IF Len(ls) = 1 THEN ls[1]
    ELSE ls[1] \o <<"\n">> \o JoinLinhas(Tail(ls))

quebrar_legenda_netflix(t, mc, ml) == JoinLinhas(Truncar(Linhas(t, mc), ml))

-----------------------------------------------------------------------------
(* Specification of quebrar_legenda_netflix: wrap a text, then wrap the
   result with the same parameters *)

WrapAlphabet == {"a", "b", " ", "\n"}

\* 'The quick brown fox jumps over the lazy dog'
TextoFox ==
    <<"T","h","e"," ","q","u","i","c","k"," ","b","r","o","w","n"," ","f",
      "o","x"," ","j","u","m","p","s"," ","o","v","e","r"," ","t","h","e",
      " ","l","a","z","y"," ","d","o","g">>

WrapTexts == Strings(WrapAlphabet, MaxWrapLen) \cup {TextoFox}

InitWrap ==
    /\ pc = "quebrar"
    /\ texto \in WrapTexts
    \* the free-form texts are wrapped to narrow lines; 10 is the width that
    \* cuts the sentence into more than two lines, 42 the default width
    /\ max_chars \in (1..MaxChars) \cup {10, 42}
    /\ max_linhas \in 1..MaxLinhas
    /\ linhas = <<>>
    /\ saida = <<>>
    /\ saida2 = <<>>
    /\ copia = "legenda"
    /\ norm1 = <<>>
    /\ norm2 = <<>>
    /\ resultado = FALSE
    /\ segments = <<>>
    /\ max_repeticoes = 2
    /\ segs_limpos = <<>>
    /\ internas = 0
    /\ i = 1
    /\ filtrados = <<>>
    /\ consecutivas = 0
    /\ IdlePass
    /\ IdleStable
    /\ IdleResto

Quebrar ==
    /\ pc = "quebrar"
    /\ linhas' = Linhas(texto, max_chars)
    /\ saida' = quebrar_legenda_netflix(texto, max_chars, max_linhas)
    /\ pc' = "requebrar"
    /\ UNCHANGED <<texto, copia, norm1, norm2, resultado, segments,
                   max_repeticoes, segs_limpos, internas, i, filtrados,
                   consecutivas, passVars, max_chars, max_linhas, saida2,
                   stableVars,
                   restoVars>>

Requebrar ==
    /\ pc = "requebrar"
    /\ saida2' = quebrar_legenda_netflix(saida, max_chars, max_linhas)
    /\ pc' = "quebrado"
    /\ UNCHANGED <<texto, copia, norm1, norm2, resultado, segments,
                   max_repeticoes, segs_limpos, internas, i, filtrados,
                   consecutivas, passVars, max_chars, max_linhas, linhas,
                   saida, stableVars,
                   restoVars>>

NextWrap == Quebrar \/ Requebrar

SpecWrap == InitWrap /\ [][NextWrap]_vars

-----------------------------------------------------------------------------
(* Claims about quebrar_legenda_netflix *)

\* the function has returned
Quebrado == pc \in {"requebrar", "quebrado"}

\* the lines of the returned text
SaidaLinhas == SplitEm(saida, "\n")

\* the words of the lines ls, line by line
RECURSIVE WordsOf(_)
WordsOf(ls) == IF ls = <<>> THEN <<>> ELSE Split(Head(ls)) \o WordsOf(Tail(ls))

\* C15: the returned text is the first min(max_linhas, L) lines of the
\* layout, L being the number of lines of the whole layout; it never has more
\* than max_linhas lines, and when L > max_linhas the words of the lines
\* after max_linhas are not in it.
C15_FirstMaxLinhasLines ==
    Quebrado =>
        LET L == Len(linhas)
            n == IF max_linhas < L THEN max_linhas ELSE L
        IN  /\ SaidaLinhas = SubSeq(linhas, 1, n)
            /\ Len(SaidaLinhas) <= max_linhas
            /\ Split(saida) \o WordsOf(SubSeq(linhas, n + 1, L)) = Split(texto)
            /\ L > max_linhas => Len(Split(saida)) < Len(Split(texto))

\* the sentence of the quick brown fox, laid out in five lines of at most
\* 10 characters, was returned as its first two lines
C15_Witness ==
    /\ Quebrado
    /\ texto = TextoFox
    /\ max_chars = 10
    /\ max_linhas = 2
    /\ Len(linhas) = 5
    /\ SaidaLinhas = << <<"T","h","e"," ","q","u","i","c","k">>,
                        <<"b","r","o","w","n"," ","f","o","x">> >>

\* C16: every returned line has at most max_chars characters, unless it is
\* a single word longer than max_chars; every word of a returned line is a
\* whole word of the input.
C16_LinesWithinMaxChars ==
    Quebrado =>
        \A k \in DOMAIN SaidaLinhas :
            LET linha == SaidaLinhas[k]
            IN  /\ \/ Len(linha) <= max_chars
                   \/ (Len(Split(linha)) = 1 /\ Split(linha) = <<linha>>)
                /\ \A w \in Range(Split(linha)) : w \in Range(Split(texto))

\* a word longer than max_chars was returned alone on the second line,
\* after a line within max_chars
C16_Witness ==
    /\ Quebrado
    /\ Len(SaidaLinhas) = 2
    /\ Len(SaidaLinhas[1]) <= max_chars
    /\ Len(SaidaLinhas[2]) > max_chars

\* C17: the words of the returned text are a prefix of the words of the
\* input split at whitespace, the whole of them when the layout has at most
\* max_linhas lines; an input without words gives the empty text.
C17_WordsArePrefix ==
    Quebrado =>
        /\ Len(Split(saida)) <= Len(Split(texto))
        /\ Split(saida) = SubSeq(Split(texto), 1, Len(Split(saida)))
        /\ Len(linhas) <= max_linhas => Split(saida) = Split(texto)
        /\ Split(texto) = <<>> => saida = <<>>

\* a text with a newline inside was returned whole, on two lines
C17_Witness ==
    /\ Quebrado
    /\ \E k \in DOMAIN texto : texto[k] = "\n"
    /\ Len(Split(texto)) >= 3
    /\ Len(SaidaLinhas) = 2
    /\ Split(saida) = Split(texto)

\* the first word of the line l
C18_FirstWord(l) == Split(l)[1]

\* C18: the layout is greedy: its lines hold all the words of the input in
\* order; no line is empty or begins or ends with whitespace, and the words
\* of a line are separated by one space; a line of several words has at most
\* max_chars characters (a break is placed when the word does not fit); and
\* a line followed by another could not take the first word of the next
\* (a break is placed only when the word does not fit).
C18_GreedyMaximal ==
    Quebrado =>
        /\ WordsOf(linhas) = Split(texto)
        /\ \A k \in DOMAIN linhas :
               LET l == linhas[k]
               IN  /\ l # <<>>
                   /\ ~IsSpace(l[1]) /\ ~IsSpace(l[Len(l)])
                   /\ \A p \in 1..(Len(l) - 1) :
                          IsSpace(l[p]) => (l[p] = " " /\ ~IsSpace(l[p + 1]))
                   /\ Len(Split(l)) > 1 => Len(l) <= max_chars
        /\ \A k \in 1..(Len(linhas) - 1) :
               Len(linhas[k]) + 1 + Len(C18_FirstWord(linhas[k + 1])) > max_chars

\* a layout of two lines, the first filled with two words of a short text
C18_Witness ==
    /\ Quebrado
    /\ Len(texto) <= MaxWrapLen
    /\ Len(linhas) = 2
    /\ Len(Split(linhas[1])) = 2
    /\ Len(linhas[1]) = max_chars

\* C19: wrapping a wrapped text with the same max_chars and max_linhas
\* returns it unchanged.
C19_WrapIdempotent == pc = "quebrado" => saida2 = saida

\* a text with a newline inside and more lines than max_linhas was wrapped
\* to two lines and wrapped again
C19_Witness ==
    /\ pc = "quebrado"
    /\ \E k \in DOMAIN texto : texto[k] = "\n"
    /\ Len(linhas) > max_linhas
    /\ Len(SaidaLinhas) = 2
    /\ saida2 = saida

-----------------------------------------------------------------------------
(* The Stable-TS transcription: transcrever_com_stable_ts of
   extrair_proximos_srt_v4_hibrido.py (copia = "v4") and motor_transcricao of
   core/transcricao.py (copia = "core").  The calls into the transcription
   library either return or raise. *)

\* the variables the transcription leaves alone
foraStable ==
    <<texto, norm1, norm2, resultado, segments, max_repeticoes, segs_limpos,
      internas, i, filtrados, consecutivas, passVars, legendaVars,
      restoVars>>

\* the post-processing methods, in the order of their calls
Metodos == <<"clamp_max_duration", "split_by_gap", "remove_all_empty">>

\* the file written whole by to_srt_vtt from a result to which the methods
\* ms were applied
Completo(ms) == [estado |-> "completo", versao |-> ms]

\* the file left by a to_srt_vtt that raised after opening it for writing
Parcial(ms) == [estado |-> "parcial", versao |-> ms]

\* result.to_srt_vtt(srt_output) raises: before the file is opened, leaving
\* the output path as it was, or after open(srt_output, 'w') truncated it
EscritaFalha(f, ms) == {f, Parcial(ms)}

InitStable ==
    /\ pc = "inicio"
    /\ copia \in {"v4", "core"}
    /\ stable_ts_available \in BOOLEAN
    /\ metodos \in SUBSET Range(Metodos)
    /\ aplicados = <<>>
    /\ arquivo = Ausente
    /\ excecao = "nenhuma"
    /\ retorno = "nenhum"
    /\ texto = <<>>
    /\ norm1 = <<>>
    /\ norm2 = <<>>
    /\ resultado = FALSE
    /\ segments = <<>>
    /\ max_repeticoes = 2
    /\ segs_limpos = <<>>
    /\ internas = 0
    /\ i = 1
    /\ filtrados = <<>>
    /\ consecutivas = 0
    /\ IdlePass
    /\ IdleLegenda
    /\ IdleResto

\* motor_transcricao: "nome_video = Path(video_path).stem" with no Path
\* imported by core/transcricao.py; the NameError is raised outside the try
NomeVideo ==
    /\ pc = "inicio"
    /\ copia = "core"
    /\ retorno' = "NameError"
    /\ pc' = "fim"
    /\ UNCHANGED <<copia, stable_ts_available, metodos, aplicados, arquivo,
                   excecao, foraStable>>

\* "if not STABLE_TS_AVAILABLE: return None"
SemStableTs ==
    /\ pc = "inicio"
    /\ copia = "v4"
    /\ ~stable_ts_available
    /\ retorno' = "None"
    /\ pc' = "fim"
    /\ UNCHANGED <<copia, stable_ts_available, metodos, aplicados, arquivo,
                   excecao, foraStable>>

\* torch and stable_whisper.load_faster_whisper
CarregarModelo ==
    /\ pc = "inicio"
    /\ copia = "v4"
    /\ stable_ts_available
    /\ pc' \in {"audio", "except"}
    /\ UNCHANGED <<copia, stable_ts_available, metodos, aplicados, arquivo,
                   excecao, retorno, foraStable>>

\* carregar_audio_via_pipe returns the audio or None; "return None"
ExtrairAudio ==
    /\ pc = "audio"
    /\ \/ pc' = "transcrever" /\ UNCHANGED retorno
       \/ pc' = "fim" /\ retorno' = "None"
    /\ UNCHANGED <<copia, stable_ts_available, metodos, aplicados, arquivo,
                   excecao, foraStable>>

\* model.transcribe
Transcrever ==
    /\ pc = "transcrever"
    /\ pc' \in {"salvar_base", "except"}
    /\ UNCHANGED <<copia, stable_ts_available, metodos, aplicados, arquivo,
                   excecao, retorno, foraStable>>

\* the first result.to_srt_vtt(srt_output, word_level=False)
SalvarBase ==
    /\ pc = "salvar_base"
    /\ \/ arquivo' = Completo(aplicados) /\ pc' = "clamp_max_duration"
       \/ arquivo' \in EscritaFalha(arquivo, aplicados) /\ pc' = "except"
    /\ UNCHANGED <<copia, stable_ts_available, metodos, aplicados, excecao,
                   retorno, foraStable>>

\* "if hasattr(result, m): result.m(...)" for the method m, followed by
\* the statement at pc value depois
PosProcessar(m, depois) ==
    /\ pc = m
    /\ \/ m \notin metodos /\ pc' = depois /\ UNCHANGED aplicados
       \/ m \in metodos /\ pc' = depois /\ aplicados' = Append(aplicados, m)
       \/ m \in metodos /\ pc' = "except_opt" /\ UNCHANGED aplicados
    /\ UNCHANGED <<copia, stable_ts_available, metodos, arquivo, excecao,
                   retorno, foraStable>>

ClampMaxDuration == PosProcessar("clamp_max_duration", "split_by_gap")

SplitByGap == PosProcessar("split_by_gap", "remove_all_empty")

RemoveAllEmpty == PosProcessar("remove_all_empty", "salvar_otimizado")

\* the second result.to_srt_vtt(srt_output, word_level=False)
SalvarOtimizado ==
    /\ pc = "salvar_otimizado"
    /\ \/ arquivo' = Completo(aplicados) /\ pc' = "retornar"
       \/ arquivo' \in EscritaFalha(arquivo, aplicados) /\ pc' = "except_opt"
    /\ UNCHANGED <<copia, stable_ts_available, metodos, aplicados, excecao,
                   retorno, foraStable>>

\* "except Exception as e_opt": a message is printed and nothing else
IgnorarOtimizacao ==
    /\ pc = "except_opt"
    /\ excecao' = "e_opt"
    /\ pc' = "retornar"
    /\ UNCHANGED <<copia, stable_ts_available, metodos, aplicados, arquivo,
                   retorno, foraStable>>

\* "return len(result.segments)": a number, which the caller takes as
\* success
RetornarSegmentos ==
    /\ pc = "retornar"
    /\ retorno' = "sucesso"
    /\ pc' = "fim"
    /\ UNCHANGED <<copia, stable_ts_available, metodos, aplicados, arquivo,
                   excecao, foraStable>>

\* the outer "except Exception as e: ... return None"
FalhaStableTs ==
    /\ pc = "except"
    /\ excecao' = "e"
    /\ retorno' = "None"
    /\ pc' = "fim"
    /\ UNCHANGED <<copia, stable_ts_available, metodos, aplicados, arquivo,
                   foraStable>>

NextStable ==
    \/ NomeVideo
    \/ SemStableTs
    \/ CarregarModelo
    \/ ExtrairAudio
    \/ Transcrever
    \/ SalvarBase
    \/ ClampMaxDuration
    \/ SplitByGap
    \/ RemoveAllEmpty
    \/ SalvarOtimizado
    \/ IgnorarOtimizacao
    \/ RetornarSegmentos
    \/ FalhaStableTs

SpecStable == InitStable /\ [][NextStable]_vars

\* the statements of the post-processing try block, its handler and the
\* return that follows
PosProcessamento ==
    Range(Metodos) \cup {"salvar_otimizado", "except_opt", "retornar"}

\* C20 as stated: the base SRT is at the output path before any
\* post-processing method is called; when a post-processing method or the
\* second write raises, the function reports success and the output path
\* still holds the whole file of the first save.
C20_BaseSrtRemains ==
    /\ pc \in PosProcessamento => arquivo.estado # "ausente"
    /\ (aplicados # <<>> /\ excecao # "e") => arquivo.estado # "ausente"
    /\ (pc = "fim" /\ excecao = "e_opt") =>
           /\ retorno = "sucesso"
           /\ arquivo = Completo(<<>>)

-----------------------------------------------------------------------------
(* Internal hallucinations between repetitions: filtrar_alucinacoes of
   limpar_alucinacoes_srt.py and the inline filter of extrair_paralelo.py,
   whose limit of repetitions is fixed to 2 *)

\* a phrase, an internal hallucination and another phrase
RunPool ==
    { <<"o","k">>,
      <<"u","m"," ","u","m"," ","u","m"," ","u","m"," ","u","m">>,
      <<"y","e","a","h">> }

\* the segments of the copy c for the texts raws
SegmentsOf(c, raws) ==
    IF Familia(c) = "limpar"
    THEN [k \in DOMAIN raws |-> ParseSegment(k, raws[k])]
    ELSE [k \in DOMAIN raws |-> WhisperSegment(k, raws[k])]

InitSurvivors ==
    /\ pc = "inicio"
    /\ copia \in {"limpar", "paralelo"}
    /\ \E raws \in UNION {[1..n -> RunPool] : n \in 0..MaxRunSegs} :
           segments = SegmentsOf(copia, raws)
    /\ max_repeticoes \in 1..MaxRep
    /\ copia = "paralelo" => max_repeticoes = 2
    /\ segs_limpos = <<>>
    /\ internas = 0
    /\ i = 1
    /\ filtrados = <<>>
    /\ consecutivas = 0
    /\ texto = <<>>
    /\ norm1 = <<>>
    /\ norm2 = <<>>
    /\ resultado = FALSE
    /\ IdlePass
    /\ IdleLegenda
    /\ IdleStable
    /\ IdleResto

SpecSurvivors == InitSurvivors /\ [][Next]_vars

\* positions of the input segments that survive the first pass
C21_Survivors ==
    {k \in DOMAIN segments : ~eh_alucinacao_interna(Strip(segments[k].text))}

\* C21: runs are counted over the survivors of the first pass: after it,
\* segs_limpos holds the survivors in input order and nothing else; and when
\* the survivors, more than max_repeticoes of them, all have one normalized
\* text and internal hallucinations lie between them in the input, the
\* output is the first survivor alone.
C21_RunsOverSurvivors ==
    /\ pc = "consecutivas" =>
           /\ Len(segs_limpos) = Cardinality(C21_Survivors)
           /\ \A m \in DOMAIN segs_limpos :
                  /\ segs_limpos[m].start + 1 \in C21_Survivors
                  /\ m > 1 => segs_limpos[m - 1].start < segs_limpos[m].start
    /\ ( /\ pc = "retorno"
         /\ Cardinality(C21_Survivors) > max_repeticoes
         /\ Cardinality(C21_Survivors) < Len(segments)
         /\ \A p, q \in C21_Survivors :
                NormalizarCopia(copia, Strip(segments[p].text))
                    = NormalizarCopia(copia, Strip(segments[q].text)) )
        => /\ Len(filtrados) = 1
           /\ \A p \in C21_Survivors : filtrados[1].start <= segments[p].start
           /\ filtrados[1].start + 1 \in C21_Survivors

\* 'ok', an internal hallucination, 'ok', an internal hallucination, 'ok'
\* with max_repeticoes = 2: the first 'ok' alone was returned
C21_Witness ==
    /\ pc = "retorno"
    /\ max_repeticoes = 2
    /\ Len(segments) = 5
    /\ C21_Survivors = {1, 3, 5}
    /\ \A k \in {1, 3, 5} : segments[k].text = <<"o","k">>
    /\ Len(filtrados) = 1
    /\ filtrados[1].start = segments[1].start

-----------------------------------------------------------------------------
(* Claims about what run collapsing leaves and discards *)

\* C22: the output never holds more than max_repeticoes consecutive
\* segments of identical normalized text.
C22_AtMostMaxIdentical ==
    pc = "retorno" =>
        \A a \in DOMAIN filtrados :
            a + max_repeticoes \in DOMAIN filtrados =>
                \E k \in (a + 1)..(a + max_repeticoes) :
                    normalizar_texto(filtrados[k].text)
                        # normalizar_texto(filtrados[a].text)

\* two pairs of identical segments were given with max_repeticoes = 2 and
\* all four were kept: each run reached the limit without exceeding it
C22_Witness ==
    /\ pc = "retorno"
    /\ max_repeticoes = 2
    /\ Len(segments) = 4
    /\ consecutivas = 0
    /\ Len(filtrados) = 4
    /\ filtrados[1].text_norm = filtrados[2].text_norm
    /\ filtrados[3].text_norm = filtrados[4].text_norm
    /\ filtrados[2].text_norm # filtrados[3].text_norm

\* the survivor at index k of segs_limpos is in the output
C23_Kept(k) ==
    \E m \in DOMAIN filtrados : filtrados[m].start = segs_limpos[k].start

\* C23: a survivor that run collapsing discards has the anchor of its run in
\* the output: a kept survivor before it whose normalized text repeats in it
\* and in every survivor between the two, none of them kept; and the first
\* survivor is the first segment of the output, so the output is empty only
\* when no segment survives the first pass.
C23_DiscardedHasAnchor ==
    pc = "retorno" =>
        /\ \A k \in DOMAIN segs_limpos :
               ~C23_Kept(k) =>
                   \E a \in 1..(k - 1) :
                       /\ C23_Kept(a)
                       /\ \A m \in (a + 1)..k :
                              /\ ~C23_Kept(m)
                              /\ ClaimRelated(segs_limpos[a].text_norm,
                                              segs_limpos[m].text_norm)
        /\ segs_limpos # <<>> =>
               /\ filtrados # <<>>
               /\ filtrados[1].start = segs_limpos[1].start

\* a run was collapsed in which a discarded survivor differs from its
\* anchor, and a later run was kept
C23_Witness ==
    /\ pc = "retorno"
    /\ Len(segs_limpos) = 4
    /\ Len(filtrados) = 2
    /\ ~C23_Kept(2)
    /\ ~C23_Kept(3)
    /\ segs_limpos[2].text_norm # segs_limpos[1].text_norm

\* the sum of length - 1 over the collapsed runs of P from index a on
RECURSIVE C24_Collapsed(_, _)
C24_Collapsed(P, a) ==
    IF a > Len(P) THEN 0
    ELSE LET j == ClaimRunEnd(P, a)
         IN  (IF j - a > max_repeticoes THEN j - a - 1 ELSE 0)
                 + C24_Collapsed(P, j)

\* C24: the count that filtrar_alucinacoes of limpar_alucinacoes_srt.py
\* returns is the number of input segments missing from the output: it is
\* the number of internal hallucinations plus, for each collapsed run, its
\* length minus one, and it is 0 exactly when the output equals the input.
C24_CountAccountsForInput ==
    pc = "retorno" =>
        LET count == internas + consecutivas
        IN  /\ Len(segments) = Len(filtrados) + count
            /\ count = Cardinality({k \in DOMAIN segments :
                                       eh_alucinacao_interna(segments[k].text)})
                           + C24_Collapsed(SurvivorPositions, 1)
            /\ count = 0 <=> filtrados = segments

\* an internal hallucination was removed and a run was collapsed
C24_Witness ==
    /\ pc = "retorno"
    /\ internas = 1
    /\ consecutivas = 2
    /\ Len(filtrados) = 1

-----------------------------------------------------------------------------
(* Claim about the order of the words of a classified text *)

\* the words ws joined by single spaces
RECURSIVE C25_Join(_)
C25_Join(ws) ==
    IF ws = <<>> THEN <<>>
    ELSE IF Len(ws) = 1 THEN ws[1]
    ELSE ws[1] \o <<" ">> \o C25_Join(Tail(ws))

\* ws with the words at p and q exchanged
C25_Swap(ws, p, q) ==
    [k \in DOMAIN ws |-> IF k = p THEN ws[q] ELSE IF k = q THEN ws[p] ELSE ws[k]]

\* C25: the result of eh_alucinacao_interna depends only on the multiset of
\* the words of the text: exchanging any two words (the exchanges generate
\* every permutation) leaves the result as it is, also when two words tie
\* for most common and only one of them is in palavras_ok.
C25_OrderIndependent ==
    pc = "classificado" =>
        LET ws == Palavras(texto)
        IN  \A p, q \in DOMAIN ws :
                p < q =>
                    eh_alucinacao_interna(C25_Join(C25_Swap(ws, p, q)))
                        = resultado

-----------------------------------------------------------------------------
(* filtrar_alucinacoes on segments of punctuation only *)

TextoHello == <<"h","e","l","l","o"," ","w","o","r","l","d">>

PunctPool == { TextoHello, <<".",".",".">>, <<"?","!">>, <<"o","k">> }

InitPunct ==
    /\ pc = "inicio"
    /\ copia \in {"limpar", "v2"}
    /\ \E raws \in UNION {[1..n -> PunctPool] : n \in 0..MaxSegs} :
           segments = SegmentsOf(copia, raws)
    /\ max_repeticoes \in 1..MaxRep
    /\ segs_limpos = <<>>
    /\ internas = 0
    /\ i = 1
    /\ filtrados = <<>>
    /\ consecutivas = 0
    /\ texto = <<>>
    /\ norm1 = <<>>
    /\ norm2 = <<>>
    /\ resultado = FALSE
    /\ IdlePass
    /\ IdleLegenda
    /\ IdleStable
    /\ IdleResto

SpecPunct == InitPunct /\ [][Next]_vars

\* the survivor at index k has a text that is not empty and normalizes to
\* the empty string
C26_PunctOnly(k) ==
    /\ segs_limpos[k].text # <<>>
    /\ normalizar_texto(segs_limpos[k].text) = <<>>

\* C26: survivors of punctuation only that follow an anchor whose normalized
\* text has more than 3 characters are taken into the anchor's run, and those
\* that follow an anchor of punctuation only are taken into its run as equal
\* texts; with max_repeticoes = 2 the segments 'hello world', '...', '?!'
\* give the output 'hello world' alone.
C26_PunctuationRepeatsAnchor ==
    [][ /\ (pc = "consecutivas" /\ i <= Len(segs_limpos)) =>
               \A k \in (i + 1)..Len(segs_limpos) :
                   ( /\ \A m \in (i + 1)..k : C26_PunctOnly(m)
                     /\ \/ Len(normalizar_texto(segs_limpos[i].text)) > 3
                        \/ C26_PunctOnly(i) )
                       => i' > k
        /\ ( /\ pc' = "retorno"
             /\ max_repeticoes = 2
             /\ Len(segments) = 3
             /\ Strip(segments[1].text) = TextoHello
             /\ Strip(segments[2].text) = <<".",".",".">>
             /\ Strip(segments[3].text) = <<"?","!">> )
                => /\ Len(filtrados') = 1
                   /\ filtrados'[1].text = TextoHello
      ]_vars

\* 'hello world', '...', '?!' was filtered with max_repeticoes = 2 and the
\* two segments of punctuation were discarded as repetitions
C26_Witness ==
    /\ pc = "retorno"
    /\ max_repeticoes = 2
    /\ Len(segs_limpos) = 3
    /\ segs_limpos[1].text = TextoHello
    /\ segs_limpos[2].text = <<".",".",".">>
    /\ segs_limpos[3].text = <<"?","!">>
    /\ consecutivas = 2
    /\ Len(filtrados) = 1

-----------------------------------------------------------------------------
(* The four copies of the filter on the same texts: filtrar_alucinacoes of
   limpar_alucinacoes_srt.py ("limpar"), filtrar_alucinacoes ("v2") and
   limpar_srt_unico ("unico") of extrair_proximos_srt_v2.py, and the inline
   filter of extrair_paralelo.py ("paralelo") *)

Copias == <<"limpar", "v2", "unico", "paralelo">>

\* the copy that is run after the copy c
CopiaSeguinte(c) ==
    Copias[(CHOOSE k \in DOMAIN Copias : Copias[k] = c) + 1]

\* texts without leading or trailing whitespace, none of them empty
CopiasPool ==
    { <<"o","k">>,
      <<"-"," ","o","k">>,
      <<"O","k","!">>,
      <<"y","e","a","h">>,
      <<"u","m"," ","u","m"," ","u","m"," ","u","m"," ","u","m">> }

\* positions, in the input, of the segments of the output
Posicoes == [m \in DOMAIN filtrados |-> filtrados[m].start + 1]

InitCopias ==
    /\ pc = "inicio"
    /\ copia = Copias[1]
    /\ \E raws \in UNION {[1..n -> CopiasPool] : n \in 0..MaxSegs} :
           segments = SegmentsOf(copia, raws)
    /\ max_repeticoes = 2
    /\ segs_limpos = <<>>
    /\ internas = 0
    /\ i = 1
    /\ filtrados = <<>>
    /\ consecutivas = 0
    /\ texto = <<>>
    /\ norm1 = <<>>
    /\ norm2 = <<>>
    /\ resultado = FALSE
    /\ IdlePass
    /\ IdleLegenda
    /\ IdleStable
    /\ IdleResto

\* the positions a copy kept are recorded and the next copy is given the
\* same texts
ProximaCopia ==
    /\ pc = "retorno"
    /\ copia # Copias[Len(Copias)]
    /\ mantidas' = Append(mantidas, [copia |-> copia, posicoes |-> Posicoes])
    /\ copia' = CopiaSeguinte(copia)
    /\ segments' =
           SegmentsOf(copia', [k \in DOMAIN segments |-> segments[k].text])
    /\ segs_limpos' = <<>>
    /\ internas' = 0
    /\ i' = 1
    /\ filtrados' = <<>>
    /\ consecutivas' = 0
    /\ pc' = "inicio"
    /\ UNCHANGED <<texto, norm1, norm2, resultado, max_repeticoes,
                   passVars, legendaVars, stableVars,
                   pipelineVars, traducaoVars>>

NextCopias == Next \/ ProximaCopia

SpecCopias == InitCopias /\ [][NextCopias]_vars

\* C27: the four copies of the filter keep the same positions of every
\* sequence of non-empty stripped texts with max_repeticoes = 2, texts such
\* as '- ok' included: a copy that has returned kept the positions that each
\* copy before it kept.
C27_CopiesAgree ==
    pc = "retorno" =>
        \A m \in DOMAIN mantidas : mantidas[m].posicoes = Posicoes

-----------------------------------------------------------------------------
(* Termination of the scan *)

\* the scan runs without interruption: an iteration of the outer loop, or
\* the return that follows the loop, is taken once it is possible
SpecScan ==
    /\ InitSurvivors
    /\ [][Next]_vars
    /\ WF_vars(ProcessarSequencia)
    /\ WF_vars(Retornar)

\* C28: the scan terminates: every outer iteration moves the anchor index i
\* forward, by the length of the run, which is at least 1, and not beyond the
\* end of the survivors; what the iteration appends to the output comes from
\* the run [i, i') alone and starts with the anchor, and the next run starts
\* at i', so that the runs are contiguous blocks that partition the
\* survivors; and a scan that has started returns.
C28_ScanTerminates ==
    /\ [][ (pc = "consecutivas" /\ i <= Len(segs_limpos)) =>
               /\ i' > i
               /\ i' <= Len(segs_limpos) + 1
               /\ pc' = "consecutivas"
               /\ Len(filtrados') > Len(filtrados)
               /\ SubSeq(filtrados', 1, Len(filtrados)) = filtrados
               /\ filtrados'[Len(filtrados) + 1] = segs_limpos[i]
               /\ \A m \in (Len(filtrados) + 1)..Len(filtrados') :
                      \E k \in i..(i' - 1) : filtrados'[m] = segs_limpos[k]
          ]_vars
    /\ [][ pc' = "retorno" =>
               (segs_limpos' # <<>> => i' = Len(segs_limpos') + 1) ]_vars
    /\ [](pc = "consecutivas" => <>(pc = "retorno"))

\* the scan has returned after three runs over five survivors, one of them
\* collapsed
C28_Witness ==
    /\ pc = "retorno"
    /\ Len(segs_limpos) = 5
    /\ i = 6
    /\ Len(filtrados) = 3
    /\ filtrados[2].start = segs_limpos[2].start
    /\ filtrados[3].start = segs_limpos[5].start

-----------------------------------------------------------------------------
(* main.py: function main.  arquivos[v] tells which of the files of the v-th
   video exist: its _EN.srt (en), its _PT.srt (pt) and its _PT.mp4 (final);
   chamadas is the list of the calls of the stages, with their outcomes *)

foraPipeline ==
    <<texto, copia, norm1, norm2, resultado, segments, max_repeticoes,
      segs_limpos, internas, i, filtrados, consecutivas, passVars, legendaVars,
      stableVars, copiasVars, traducaoVars>>

InitPipeline ==
    /\ pc = "carregar_whisper"
    /\ arquivos \in UNION {[1..n -> [en : BOOLEAN, pt : BOOLEAN, final : BOOLEAN]] :
                              n \in 0..MaxVideos}
    /\ video = 1
    /\ chamadas = <<>>
    /\ encerramento = "nenhum"
    /\ texto = <<>>
    /\ copia = "limpar"
    /\ norm1 = <<>>
    /\ norm2 = <<>>
    /\ resultado = FALSE
    /\ segments = <<>>
    /\ max_repeticoes = 2
    /\ segs_limpos = <<>>
    /\ internas = 0
    /\ i = 1
    /\ filtrados = <<>>
    /\ consecutivas = 0
    /\ IdlePass
    /\ IdleLegenda
    /\ IdleStable
    /\ IdleCopias
    /\ IdleTraducao

\* the call of a stage for the current video and its outcome
Chamada(etapa, res) == [video |-> video, etapa |-> etapa, resultado |-> res]

\* WhisperModel(...) returns
CarregarWhisper ==
    /\ pc = "carregar_whisper"
    /\ pc' = "listar"
    /\ UNCHANGED <<pipelineVars, foraPipeline>>

\* WhisperModel(...) raises: main logs the error and returns
FalhaWhisper ==
    /\ pc = "carregar_whisper"
    /\ pc' = "fim"
    /\ encerramento' = "erro_modelo"
    /\ UNCHANGED <<arquivos, video, chamadas, foraPipeline>>

\* "if not videos: return"
SemVideos ==
    /\ pc = "listar"
    /\ arquivos = <<>>
    /\ pc' = "fim"
    /\ encerramento' = "sem_videos"
    /\ UNCHANGED <<arquivos, video, chamadas, foraPipeline>>

\* the for loop starts on the first video
IniciarLaco ==
    /\ pc = "listar"
    /\ arquivos # <<>>
    /\ pc' = "etapa1"
    /\ UNCHANGED <<pipelineVars, foraPipeline>>

\* the for loop goes on to the next video, or main returns after the last
Avancar ==
    IF video < Len(arquivos)
    THEN /\ pc' = "etapa1"
         /\ video' = video + 1
         /\ UNCHANGED encerramento
    ELSE /\ pc' = "fim"
         /\ encerramento' = "fim"
         /\ UNCHANGED video

\* "if srt_en.exists()"
PularTranscricao ==
    /\ pc = "etapa1"
    /\ arquivos[video].en
    /\ pc' = "etapa2"
    /\ UNCHANGED <<pipelineVars, foraPipeline>>

\* motor_transcricao(video, srt_en, model_faster): every call raises the
\* NameError of "Path(video_path).stem", before the try of the function;
\* main has no handler and the exception ends it
ChamarMotorTranscricao ==
    /\ pc = "etapa1"
    /\ ~arquivos[video].en
    /\ chamadas' = Append(chamadas, Chamada("transcricao", "excecao"))
    /\ pc' = "fim"
    /\ encerramento' = "excecao"
    /\ UNCHANGED <<arquivos, video, foraPipeline>>

\* "if srt_pt.exists()"
PularTraducao ==
    /\ pc = "etapa2"
    /\ arquivos[video].pt
    /\ pc' = "etapa3"
    /\ UNCHANGED <<pipelineVars, foraPipeline>>

\* traduzir_srt_lotes(srt_en, srt_pt): True after the file was written,
\* False otherwise, and then "continue"
ChamarTraducao ==
    /\ pc = "etapa2"
    /\ ~arquivos[video].pt
    /\ \E sucesso \in BOOLEAN :
           IF sucesso
           THEN /\ chamadas' = Append(chamadas, Chamada("traducao", "sucesso"))
                /\ arquivos' = [arquivos EXCEPT ![video].pt = TRUE]
                /\ pc' = "etapa3"
                /\ UNCHANGED <<video, encerramento>>
           ELSE /\ chamadas' = Append(chamadas, Chamada("traducao", "falha"))
                /\ Avancar
                /\ UNCHANGED arquivos
    /\ UNCHANGED foraPipeline

\* "if video_final.exists()"
PularEmbutir ==
    /\ pc = "etapa3"
    /\ arquivos[video].final
    /\ Avancar
    /\ UNCHANGED <<arquivos, chamadas, foraPipeline>>

\* embutir_legendas_ffmpeg(video, srt_pt, video_final): True or False, logged
\* either way
ChamarEmbutir ==
    /\ pc = "etapa3"
    /\ ~arquivos[video].final
    /\ \E sucesso \in BOOLEAN :
           /\ chamadas' =
                  Append(chamadas,
                         Chamada("embutir", IF sucesso THEN "sucesso" ELSE "falha"))
           /\ arquivos' = [arquivos EXCEPT ![video].final = sucesso]
    /\ Avancar
    /\ UNCHANGED foraPipeline

NextPipeline ==
    \/ CarregarWhisper
    \/ FalhaWhisper
    \/ SemVideos
    \/ IniciarLaco
    \/ PularTranscricao
    \/ ChamarMotorTranscricao
    \/ PularTraducao
    \/ ChamarTraducao
    \/ PularEmbutir
    \/ ChamarEmbutir

SpecPipeline == InitPipeline /\ [][NextPipeline]_vars

\* position of a stage in the pipeline
C29_Rank(etapa) ==
    CASE etapa = "transcricao" -> 1
      [] etapa = "traducao" -> 2
      [] etapa = "embutir" -> 3

\* C29: the stages of a video are called in the order transcription,
\* translation, embedding, the videos in their order; a stage is called only
\* when its output file does not exist and every stage called before it for
\* the video reported success, its input file being there; and once the loop
\* has started main ends only after the last video, whatever failed before.
C29_StagesInOrder ==
    [][ /\ chamadas' # chamadas =>
               LET c == chamadas'[Len(chamadas')]
                   antes == {k \in DOMAIN chamadas :
                                chamadas[k].video = c.video}
               IN  /\ chamadas' = Append(chamadas, c)
                   /\ c.video = video
                   /\ \A k \in DOMAIN chamadas : chamadas[k].video <= c.video
                   /\ \A k \in antes :
                          /\ C29_Rank(chamadas[k].etapa) < C29_Rank(c.etapa)
                          /\ chamadas[k].resultado = "sucesso"
                   /\ c.etapa = "transcricao" => ~arquivos[video].en
                   /\ c.etapa = "traducao" =>
                          arquivos[video].en /\ ~arquivos[video].pt
                   /\ c.etapa = "embutir" =>
                          arquivos[video].pt /\ ~arquivos[video].final
        /\ (pc' = "fim" /\ pc \in {"etapa1", "etapa2", "etapa3"}) =>
               video' = Len(arquivos')
      ]_vars

-----------------------------------------------------------------------------
(* core/traducao.py: traduzir_srt_lotes.  The blocks of the input file are
   numbered from 1; lote is the number of the first block of the current
   batch; an entry of legendas_traduzidas tells the batch it stands for and
   whether it is the translation or the original text of the batch *)

\* config.py: BATCH_SIZE
BATCH_SIZE == 20

\* one attempt more than the loop allows
MaxTentativasMais == 3 + 1

\* "while tentativas < 3 and not sucesso_lote"
MaxTentativas == 3

foraTraducao ==
    <<texto, copia, norm1, norm2, resultado, segments, max_repeticoes,
      segs_limpos, internas, i, filtrados, consecutivas, passVars, legendaVars,
      stableVars, copiasVars, pipelineVars>>

InitTraducao ==
    /\ pc = "ler"
    /\ num_blocos \in 1..MaxBlocos
    /\ lote = 1
    /\ tentativas = 0
    /\ sucesso_lote = FALSE
    /\ legendas_traduzidas = <<>>
    /\ envios = <<>>
    /\ saida_pt = <<>>
    /\ retorno_traducao = "nenhum"
    /\ texto = <<>>
    /\ copia = "limpar"
    /\ norm1 = <<>>
    /\ norm2 = <<>>
    /\ resultado = FALSE
    /\ segments = <<>>
    /\ max_repeticoes = 2
    /\ segs_limpos = <<>>
    /\ internas = 0
    /\ i = 1
    /\ filtrados = <<>>
    /\ consecutivas = 0
    /\ IdlePass
    /\ IdleLegenda
    /\ IdleStable
    /\ IdleCopias
    /\ IdlePipeline

\* the input file is read and split into blocks, the model object is made
LerEntrada ==
    /\ pc = "ler"
    /\ pc' = "lotes"
    /\ UNCHANGED <<traducaoVars, foraTraducao>>

\* reading the file or making the model object raises: "return False"
FalhaLeitura ==
    /\ pc = "ler"
    /\ retorno_traducao' = "False"
    /\ pc' = "retornado"
    /\ UNCHANGED <<num_blocos, lote, tentativas, sucesso_lote,
                   legendas_traduzidas, envios, saida_pt, foraTraducao>>

\* an iteration of the for loop starts: the batch of the blocks from lote on
IniciarLote ==
    /\ pc = "lotes"
    /\ lote <= num_blocos
    /\ sucesso_lote' = FALSE
    /\ tentativas' = 0
    /\ pc' = "tentar"
    /\ UNCHANGED <<num_blocos, lote, legendas_traduzidas, envios, saida_pt,
                   retorno_traducao, foraTraducao>>

\* an iteration of the while loop: generate_content returns a text, or it
\* raises or returns no text
EnviarLote ==
    /\ pc = "tentar"
    /\ tentativas < MaxTentativas
    /\ ~sucesso_lote
    /\ \E ok \in BOOLEAN :
           /\ envios' = Append(envios, [lote |-> lote, ok |-> ok])
           /\ IF ok
              THEN /\ legendas_traduzidas' =
                          Append(legendas_traduzidas,
                                 [lote |-> lote, texto |-> "traducao"])
                   /\ sucesso_lote' = TRUE
                   /\ UNCHANGED tentativas
              ELSE /\ tentativas' = tentativas + 1
                   /\ UNCHANGED <<legendas_traduzidas, sucesso_lote>>
    /\ UNCHANGED <<pc, num_blocos, lote, saida_pt, retorno_traducao,
                   foraTraducao>>

\* the while loop is left; "if not sucesso_lote" the original text of the
\* batch is appended; the for loop goes on
ConcluirLote ==
    /\ pc = "tentar"
    /\ ~(tentativas < MaxTentativas /\ ~sucesso_lote)
    /\ legendas_traduzidas' =
           IF sucesso_lote THEN legendas_traduzidas
           ELSE Append(legendas_traduzidas, [lote |-> lote, texto |-> "original"])
    /\ lote' = lote + BATCH_SIZE
    /\ pc' = "lotes"
    /\ UNCHANGED <<num_blocos, tentativas, sucesso_lote, envios, saida_pt,
                   retorno_traducao, foraTraducao>>

\* after the for loop the entries are written and True is returned; if the
\* writing raises, False is returned
SalvarFinal ==
    /\ pc = "lotes"
    /\ lote > num_blocos
    /\ \E ok \in BOOLEAN :
           IF ok
           THEN /\ saida_pt' = legendas_traduzidas
                /\ retorno_traducao' = "True"
           ELSE /\ retorno_traducao' = "False"
                /\ UNCHANGED saida_pt
    /\ pc' = "retornado"
    /\ UNCHANGED <<num_blocos, lote, tentativas, sucesso_lote,
                   legendas_traduzidas, envios, foraTraducao>>

NextTraducao ==
    \/ LerEntrada
    \/ FalhaLeitura
    \/ IniciarLote
    \/ EnviarLote
    \/ ConcluirLote
    \/ SalvarFinal

SpecTraducao == InitTraducao /\ [][NextTraducao]_vars

\* the first blocks of the batches of the input
C30_Lotes == {b \in 1..num_blocos : (b - 1) % 20 = 0}

\* the sends of the batch that starts at block b
C30_Envios(b) == {k \in DOMAIN envios : envios[k].lote = b}

\* C30: a batch is sent at most 3 times and not again after its first
\* success, the batches in their order; the entry of a batch is its
\* translation if a send succeeded and its original text if 3 sends failed;
\* the output written has one entry per batch of the input, in the order of
\* the batches; and False is returned only when the input could not be read,
\* before any send, or when the output could not be written, after every
\* batch got its entry.
C30_BatchesRetriedAndKept ==
    /\ \A b \in C30_Lotes :
           /\ Cardinality(C30_Envios(b)) <= 3
           /\ \A k, m \in C30_Envios(b) : k < m => ~envios[k].ok
    /\ \A k, m \in DOMAIN envios :
           /\ envios[k].lote \in C30_Lotes
           /\ k < m => envios[k].lote <= envios[m].lote
    /\ \A k \in DOMAIN legendas_traduzidas :
           LET e == legendas_traduzidas[k]
           IN  /\ e.lote = 1 + (k - 1) * 20
               /\ e.lote \in C30_Lotes
               /\ e.texto = "traducao" <=>
                      \E m \in C30_Envios(e.lote) : envios[m].ok
               /\ e.texto = "original" <=>
                      /\ Cardinality(C30_Envios(e.lote)) = 3
                      /\ \A m \in C30_Envios(e.lote) : ~envios[m].ok
    /\ (pc = "retornado" /\ retorno_traducao = "True") =>
           /\ Len(saida_pt) = Cardinality(C30_Lotes)
           /\ saida_pt = legendas_traduzidas
    /\ (pc = "retornado" /\ retorno_traducao = "False") =>
           \/ envios = <<>> /\ legendas_traduzidas = <<>>
           \/ Len(legendas_traduzidas) = Cardinality(C30_Lotes)

\* three batches were written: the first translated at the second send, the
\* second kept in the original after three failed sends, the third
\* translated
C30_Witness ==
    /\ pc = "retornado"
    /\ retorno_traducao = "True"
    /\ Len(saida_pt) = 3
    /\ saida_pt[1].texto = "traducao"
    /\ saida_pt[2].texto = "original"
    /\ saida_pt[3].texto = "traducao"
    /\ Len(envios) = 6
    /\ ~envios[1].ok

=============================================================================
